---- MODULE Spec2Model ----
(***************************************************************************)
(* A model of the container registry of cmd main.go and                    *)
(* internal/registry/registry.go: the on-disk store rooted at BasePath,    *)
(* the HTTP handlers of the /v2/ endpoints, and the file-system calls      *)
(* they make.                                                              *)
(*                                                                         *)
(* Strings that the program compares or joins (digests, tags, upload ids,  *)
(* media types) are sequences of lexical tokens, so that parsing a digest  *)
(* is something the model computes: "sha256:aa" is <<"sha256",":","aa">>.  *)
(* The token "aa" (and "bb") stands for a 64-digit lowercase hex string.   *)
(* Repository names are taken from a set none of whose members is a path   *)
(* prefix of another.                                                      *)
(***************************************************************************)
EXTENDS Integers, Sequences, FiniteSets, TLC

(***************************************************************************)
(* Bounds of the model.                                                    *)
(***************************************************************************)
\* requests the sequential specification processes
MaxRequests == 3
\* upload ids the POST handler hands out
MaxUploads == 2

(***************************************************************************)
(* Inputs.                                                                 *)
(***************************************************************************)
Names == {"r1", "r2"}
\* the repository the requests of the sequential specification address
SeqNames == {"r1"}

\* the algorithms go-digest has registered (sha256, sha384, sha512); the
\* encodings below have the length of a sha256 digest
Algorithms == {"sha256"}
HexOfSha256 == {"aa", "bb"}

ValidDigests == {<<"sha256", ":", "aa">>, <<"sha256", ":", "bb">>}
InvalidDigests ==
    { <<>>,                          \* no digest parameter at all
      <<"aa">>,                      \* no algorithm prefix ("notadigest")
      <<":", "aa">>,                 \* empty algorithm
      <<"sha256", ":">>,             \* empty encoding
      <<"md5", ":", "aa">>,          \* algorithm that is not registered
      <<"sha256", ":", "zz">> }      \* encoding that is not 64 hex digits
DigestInputs == ValidDigests \cup InvalidDigests

\* the digest that also serves as an upload reference
RefDigests == {<<"sha256", ":", "aa">>}

TagInputs == {<<"v1">>}
UuidOf(i) == << <<"u1">>, <<"u2">>, <<"u3">>, <<"u4">> >>[i]
Uuids == {UuidOf(i) : i \in 1..4}
\* a well-formed upload id that no POST ever returned
UnknownUuid == <<"u9">>

\* request bodies of PATCH: a gzip stream, and one that is no archive
GzBody == <<31, 139, 8, 0>>
JsBody == <<123, 125>>
Bodies == {GzBody, JsBody}

(***************************************************************************)
(* The file system under BasePath.  A directory base/{name}/{key} holds    *)
(* regular files only; a file is its content.                              *)
(***************************************************************************)
Keys == ValidDigests \cup TagInputs \cup Uuids \cup {UnknownUuid}

\* the file names the program creates, in the order ioutil.ReadDir lists
\* them (sorted by file name)
FileOrder == <<"layer.json", "layer.tar.gz", "manifest.json">>
FileNames == {FileOrder[i] : i \in 1..Len(FileOrder)}

\* the Manifest struct with every field at its zero value
ZeroDescriptor == [MediaType |-> <<>>, Digest |-> <<>>, Size |-> 0]
ZeroManifest ==
    [SchemaVersion |-> 0, MediaType |-> <<>>, Config |-> ZeroDescriptor,
     LayersNil |-> TRUE, Layers |-> <<>>]

\* a JSON scalar as it stands in a document
JAbsent == [t |-> "absent", s |-> <<>>, n |-> 0]
JNull == [t |-> "null", s |-> <<>>, n |-> 0]
JNum(n) == [t |-> "num", s |-> <<>>, n |-> n]
JStr(s) == [t |-> "str", s |-> s, n |-> 0]
\* a JSON descriptor object: t is "absent", "null", "object" or "str"
JDesc(mt, dg, sz) == [t |-> "object", mediaType |-> mt, digest |-> dg, size |-> sz]
JNoDesc(t) == [t |-> t, mediaType |-> JAbsent, digest |-> JAbsent, size |-> JAbsent]
\* a JSON document: syntax is FALSE for bytes that do not begin with a JSON
\* value; layers.t is "absent", "null", "array" or "str"; extra says that a
\* member unknown to the Manifest struct is present; trailing says that
\* bytes which are no JSON follow the first value
JDoc(ok, sv, mt, cfg, lt, ls, extra) ==
    [syntax |-> ok, schemaVersion |-> sv, mediaType |-> mt, config |-> cfg,
     layers |-> [t |-> lt, items |-> ls], extra |-> extra, trailing |-> FALSE]
WithTrailing(doc) == [doc EXCEPT !.trailing = TRUE]
NoDoc == JDoc(FALSE, JAbsent, JAbsent, JNoDesc("absent"), "absent", <<>>, FALSE)

\* what a path holds: nothing, a byte string, or an encoded JSON document
NoFile == [kind |-> "none", bytes |-> <<>>, doc |-> NoDoc]
BytesFile(b) == [kind |-> "bytes", bytes |-> b, doc |-> NoDoc]
DocFile(d) == [kind |-> "doc", bytes |-> <<>>, doc |-> d]

NoDir == [exists |-> FALSE, files |-> [f \in FileNames |-> NoFile]]
EmptyDir == [exists |-> TRUE, files |-> [f \in FileNames |-> NoFile]]

\* os.MkdirAll(base/name/key): creates the directory unless it is there
MkdirAll(fs, name, key) ==
    IF fs[<<name, key>>].exists THEN fs
    ELSE [fs EXCEPT ![<<name, key>>] = EmptyDir]

\* os.Stat(path): whether the path exists
StatDir(fs, name, key) == fs[<<name, key>>].exists
StatFile(fs, name, key, f) ==
    fs[<<name, key>>].exists /\ fs[<<name, key>>].files[f].kind # "none"

\* os.Create(dir/f): creates or truncates the file; fails without the directory
CreateFile(fs, name, key, f) ==
    IF fs[<<name, key>>].exists
    THEN [fs EXCEPT ![<<name, key>>].files[f] = BytesFile(<<>>)]
    ELSE fs

\* a write of the whole content through an open descriptor
WriteFile(fs, name, key, f, c) ==
    IF StatFile(fs, name, key, f)
    THEN [fs EXCEPT ![<<name, key>>].files[f] = c]
    ELSE fs

\* ioutil.ReadDir(dir): the entries sorted by file name
ReadDir(fs, name, key) ==
    SelectSeq(FileOrder, LAMBDA f : fs[<<name, key>>].files[f].kind # "none")

\* os.Rename(base/name/old/f, base/name/new/f); the source exists
Rename(fs, name, old, new, f) ==
    IF old = new THEN fs
    ELSE [fs EXCEPT ![<<name, new>>].files[f] = fs[<<name, old>>].files[f],
                    ![<<name, old>>].files[f] = NoFile]
RenameOk(fs, name, old, new, f) ==
    StatFile(fs, name, old, f) /\ StatDir(fs, name, new)

\* os.Remove(dir): removes an empty directory, fails on any other
Remove(fs, name, key) ==
    IF fs[<<name, key>>].exists /\ ReadDir(fs, name, key) = <<>>
    THEN [fs EXCEPT ![<<name, key>>] = NoDir]
    ELSE fs

\* the size os.FileInfo reports: the bytes of the file; an encoded document
\* counts its members
DocSize(d) == 4 + Len(d.layers.items)
FileSize(c) == IF c.kind = "doc" THEN DocSize(c.doc) ELSE Len(c.bytes)

(***************************************************************************)
(* digest.Parse, as the handlers call it.                                  *)
(***************************************************************************)
\* strings.Index(s, ":"), counted from 1; 0 when there is none
SepIndex(s) ==
    IF \E i \in 1..Len(s) : s[i] = ":"
    THEN CHOOSE i \in 1..Len(s) : s[i] = ":" /\ \A j \in 1..(i - 1) : s[j] # ":"
    ELSE 0

\* Digest.Validate: the separator stands after a non-empty algorithm and
\* before a non-empty encoding, the algorithm is registered, and the
\* encoding has the algorithm's length and is lowercase hex
ParseDigest(s) ==
    LET i == SepIndex(s)
        algorithm == SubSeq(s, 1, i - 1)
        encoded == SubSeq(s, i + 1, Len(s))
    IN  IF i <= 1 \/ i = Len(s) THEN FALSE
        ELSE /\ Len(algorithm) = 1 /\ algorithm[1] \in Algorithms
             /\ Len(encoded) = 1 /\ encoded[1] \in HexOfSha256

(***************************************************************************)
(* Media type detection of CreateLayer.                                    *)
(***************************************************************************)
\* the size of the buffer CreateLayer peeks into
BufSize == 8192

\* the magic numbers of filetype.IsArchive that the bodies can meet (gzip, xz)
ArchiveMagic == {<<31, 139, 8>>, <<253, 55, 122, 88, 90, 0>>}

\* the buffer after the first Read returned n bytes: the rest stays zero
BufferAt(body, n, i) == IF i <= n THEN body[i] ELSE 0

\* filetype.IsArchive(buffer)
IsArchive(body, n) ==
    \E m \in ArchiveMagic :
        /\ Len(m) < BufSize
        /\ \A i \in 1..Len(m) : BufferAt(body, n, i) = m[i]

\* detectExt(buffer)
detectExt(body, n) == IF IsArchive(body, n) THEN ".tar.gz" ELSE ".json"
LayerFile(ext) == IF ext = ".tar.gz" THEN "layer.tar.gz" ELSE "layer.json"

\* the byte counts the first r.Read(buffer) of a body may return
ReadSizes(body) ==
    IF Len(body) = 0 THEN {0}
    ELSE {n \in 1..Len(body) : n <= BufSize}

\* filepath.Ext(filename): the suffix from the last dot on
ExtOf(f) ==
    CASE f = "layer.json" -> ".json"
      [] f = "layer.tar.gz" -> ".gz"
      [] f = "manifest.json" -> ".json"
      [] OTHER -> ""
\* strings.HasSuffix(filename, ".json")
HasJsonSuffix(f) == f \in {"layer.json", "manifest.json"}

TarGzipType == <<"application/vnd.docker.image.rootfs.diff.tar.gzip">>
ManifestType == <<"application/vnd.docker.distribution.manifest.v2+json">>
OctetStream == <<"application/octet-stream">>

\* PredictDockerContentType, and the same choice inlined in PushBlobHead
PredictDockerContentType(f) ==
    IF ExtOf(f) = ".json" THEN ManifestType ELSE TarGzipType

\* PickupFileinfo(dir): the first entry of the directory
PickupFileinfo(fs, name, key) ==
    IF ~StatDir(fs, name, key) THEN [err |-> "readdir", file |-> "", size |-> 0]
    ELSE IF ReadDir(fs, name, key) = <<>>
    THEN [err |-> "nofile", file |-> "", size |-> 0]
    ELSE LET f == ReadDir(fs, name, key)[1]
         IN  [err |-> "none", file |-> f,
              size |-> FileSize(fs[<<name, key>>].files[f])]

(***************************************************************************)
(* encoding/json on the Manifest struct.                                   *)
(***************************************************************************)
\* whether a JSON scalar can be stored in a Go string, or in a Go integer
FitsString(v) == v.t \in {"absent", "null", "str"}
FitsInt(v) == v.t \in {"absent", "null", "num"}

\* json.Unmarshal into ocispec.Descriptor: members that are absent or null
\* leave the zero value
DecodeDescriptor(d) ==
    IF d.t # "object" THEN ZeroDescriptor
    ELSE [MediaType |-> d.mediaType.s, Digest |-> d.digest.s, Size |-> d.size.n]
DescriptorFits(d) ==
    \/ d.t \in {"absent", "null"}
    \/ /\ d.t = "object"
       /\ FitsString(d.mediaType) /\ FitsString(d.digest) /\ FitsInt(d.size)

\* json.NewDecoder(r.Body).Decode(&m): the error, and m as it stands
\* afterwards.  Decode reads the first JSON value of the stream and leaves
\* what follows it unread.
DecodeFails(doc) ==
    \/ ~doc.syntax
    \/ ~FitsInt(doc.schemaVersion)
    \/ ~FitsString(doc.mediaType)
    \/ ~DescriptorFits(doc.config)
    \/ doc.layers.t = "str"
    \/ /\ doc.layers.t = "array"
       /\ \E i \in 1..Len(doc.layers.items) : ~DescriptorFits(doc.layers.items[i])
Decode(doc) ==
    [SchemaVersion |-> doc.schemaVersion.n,
     MediaType |-> doc.mediaType.s,
     Config |-> DecodeDescriptor(doc.config),
     LayersNil |-> doc.layers.t # "array",
     Layers |-> IF doc.layers.t # "array" THEN <<>>
                ELSE [i \in 1..Len(doc.layers.items) |->
                         DecodeDescriptor(doc.layers.items[i])]]

\* json.Marshal of ocispec.Descriptor: mediaType is omitempty, digest and
\* size are always written
EncodeDescriptor(d) ==
    JDesc(IF d.MediaType = <<>> THEN JAbsent ELSE JStr(d.MediaType),
          JStr(d.Digest), JNum(d.Size))

\* Encode that leaves the layers out
EncodeWithoutLayers(m) ==
    JDoc(TRUE, JNum(m.SchemaVersion), JStr(m.MediaType),
         EncodeDescriptor(m.Config), "null", <<>>, FALSE)

\* json.NewEncoder(f).Encode(&m): all four members of Manifest, a nil
\* slice as null
Encode(m) ==
    JDoc(TRUE, JNum(m.SchemaVersion), JStr(m.MediaType),
         EncodeDescriptor(m.Config),
         IF m.LayersNil THEN "null" ELSE "array",
         [i \in 1..Len(m.Layers) |-> EncodeDescriptor(m.Layers[i])],
         FALSE)

\* request bodies of the manifest PUT
ConfigType == <<"application/vnd.docker.container.image.v1+json">>
ManifestFull ==
    JDoc(TRUE, JNum(2), JStr(ManifestType),
         JDesc(JStr(ConfigType), JStr(<<"sha256", ":", "cc">>), JNum(7023)),
         "array",
         << JDesc(JStr(TarGzipType), JStr(<<"sha256", ":", "aa">>), JNum(4)) >>,
         FALSE)
\* a member the struct does not know, no media types, no layers
ManifestSparse ==
    JDoc(TRUE, JNum(2), JAbsent,
         JDesc(JAbsent, JStr(<<"sha256", ":", "dd">>), JAbsent),
         "absent", <<>>, TRUE)
\* schemaVersion given as a string
ManifestMistyped ==
    JDoc(TRUE, JStr(<<"2">>), JStr(ManifestType),
         JDesc(JStr(ConfigType), JStr(<<"sha256", ":", "cc">>), JNum(7023)),
         "null", <<>>, FALSE)
\* bytes that are no JSON value
ManifestGarbage == NoDoc
\* a manifest object followed by bytes that are no JSON
ManifestTrailing == WithTrailing(ManifestFull)
ManifestInputs ==
    {ManifestFull, ManifestSparse, ManifestMistyped, ManifestGarbage,
     ManifestTrailing}

(***************************************************************************)
(* Responses.  err is what the handler returned: "none", one of the codes  *)
(* of internal/errors, "status404" for an error that carries a status and  *)
(* no code, or "raw" for an error returned as it came from the os          *)
(* or the registry package.                                                *)
(***************************************************************************)
\* the status the error adapter answers with
StatusOf(err, written) ==
    CASE err = "none" -> written
      [] err \in {"BLOB_UNKNOWN", "BLOB_UPLOAD_UNKNOWN", "MANIFEST_UNKNOWN",
                  "NAME_UNKNOWN", "status404"} -> 404
      [] err \in {"DIGEST_INVALID", "MANIFEST_INVALID", "TAG_INVALID",
                  "BLOB_UPLOAD_INVALID", "NAME_INVALID", "SIZE_INVALID"} -> 400
      [] OTHER -> 500

Response(op, name, ref, dq, err, written) ==
    [op |-> op, name |-> name, ref |-> ref, dq |-> dq, err |-> err,
     status |-> StatusOf(err, written),
     body |-> NoFile, ctype |-> <<>>, clen |-> -1, dcd |-> <<>>,
     location |-> <<>>, uploadUuid |-> <<>>, range |-> -1,
     acceptRanges |-> FALSE]
NoResponse == Response("", "", <<>>, <<>>, "none", 0)

(***************************************************************************)
(* The handlers, each as the response it writes and the file system it     *)
(* leaves when it runs from start to end without another request between   *)
(* its file-system calls.                                                  *)
(***************************************************************************)
\* PullingBlobs: GET /v2/{name}/blobs/{digest}
PullingBlobsRun(fs, name, dq) ==
    IF ~ParseDigest(dq) THEN Response("GET", name, <<>>, dq, "DIGEST_INVALID", 0)
    ELSE IF ~StatDir(fs, name, dq) THEN Response("GET", name, <<>>, dq, "BLOB_UNKNOWN", 0)
    ELSE LET fi == PickupFileinfo(fs, name, dq)
         IN  IF fi.err # "none" THEN Response("GET", name, <<>>, dq, "raw", 0)
             ELSE [Response("GET", name, <<>>, dq, "none", 200) EXCEPT
                      !.body = fs[<<name, dq>>].files[fi.file],
                      !.ctype = OctetStream,
                      !.acceptRanges = ~HasJsonSuffix(fi.file)]

\* PushBlobHead: HEAD /v2/{name}/blobs/{digest}
PushBlobHeadRun(fs, name, dq) ==
    IF ~ParseDigest(dq) THEN Response("HEAD", name, <<>>, dq, "DIGEST_INVALID", 0)
    ELSE IF ~StatDir(fs, name, dq) THEN Response("HEAD", name, <<>>, dq, "status404", 0)
    ELSE LET fi == PickupFileinfo(fs, name, dq)
         IN  IF fi.err # "none" THEN Response("HEAD", name, <<>>, dq, "raw", 0)
             ELSE [Response("HEAD", name, <<>>, dq, "none", 202) EXCEPT
                      !.ctype = PredictDockerContentType(fi.file),
                      !.dcd = dq,
                      !.clen = fi.size]

\* PullingManifests: GET /v2/{name}/manifests/{tag}
PullingManifestsRun(fs, name, tag) ==
    IF ~StatFile(fs, name, tag, "manifest.json")
    THEN Response("GET manifest", name, tag, <<>>, "MANIFEST_UNKNOWN", 0)
    ELSE [Response("GET manifest", name, tag, <<>>, "none", 200) EXCEPT
             !.body = fs[<<name, tag>>].files["manifest.json"],
             !.ctype = ManifestType]

\* PushBlob: POST /v2/{name}/blobs/uploads/
PushBlobRun(name, uuid) ==
    [Response("POST", name, uuid, <<>>, "none", 202) EXCEPT !.location = uuid]

\* CreateLayer(r.Body, path), the first Read returning n bytes
CreateLayer(fs, name, key, body, n) ==
    LET f == LayerFile(detectExt(body, n))
    IN  WriteFile(CreateFile(fs, name, key, f), name, key, f, BytesFile(body))

\* the directory of an upload: PathJoinWithBase(name, reference)
UploadDirShared(name, reference) == UnknownUuid
UploadDir(name, reference) == reference

\* PushBlobPatch: PATCH /v2/{name}/blobs/uploads/{reference}
PushBlobPatchRun(fs, name, ref, body, n) ==
    [fs |-> CreateLayer(MkdirAll(fs, name, UploadDir(name, ref)), name,
                        UploadDir(name, ref), body, n),
     resp |-> [Response("PATCH", name, ref, <<>>, "none", 202) EXCEPT
                  !.location = ref, !.uploadUuid = ref, !.range = Len(body)]]

\* PushBlobPut after digest.Parse: MkdirAll(newDir), PickupFileinfo(oldDir),
\* Rename, Remove(oldDir)
CommitUpload(fs, name, ref, dq) ==
    LET made == MkdirAll(fs, name, dq)
        old == UploadDir(name, ref)
        fi == PickupFileinfo(made, name, old)
    IN  IF fi.err # "none"
        THEN [fs |-> made, resp |-> Response("PUT", name, ref, dq, "raw", 0)]
        ELSE [fs |-> Remove(Rename(made, name, old, dq, fi.file), name, old),
              resp |-> Response("PUT", name, ref, dq, "none", 201)]

\* PushBlobPut with the error of digest.Parse returned as it is
PushBlobPutUnwrapped(fs, name, ref, dq) ==
    IF ~ParseDigest(dq)
    THEN [fs |-> fs, resp |-> Response("PUT", name, ref, dq, "raw", 0)]
    ELSE CommitUpload(fs, name, ref, dq)

\* PushBlobPut: PUT /v2/{name}/blobs/uploads/{reference}?digest={dq}
PushBlobPutRun(fs, name, ref, dq) ==
    IF ~ParseDigest(dq)
    THEN [fs |-> fs, resp |-> Response("PUT", name, ref, dq, "DIGEST_INVALID", 0)]
    ELSE CommitUpload(fs, name, ref, dq)

\* PushManifestPut that keeps a manifest.json it finds
PushManifestPutKeep(fs, name, tag, doc) ==
    IF DecodeFails(doc)
    THEN [fs |-> fs, resp |-> Response("PUT manifest", name, tag, <<>>, "MANIFEST_INVALID", 0)]
    ELSE LET m == Decode(doc)
             made == MkdirAll(fs, name, tag)
             kept == StatFile(made, name, tag, "manifest.json")
             created == CreateFile(made, name, tag, "manifest.json")
         IN  [fs |-> IF kept THEN made
                     ELSE WriteFile(created, name, tag, "manifest.json",
                                    DocFile(Encode(m))),
              resp |-> [Response("PUT manifest", name, tag, <<>>, "none", 201) EXCEPT
                           !.dcd = m.Config.Digest]]

\* PushManifestPut: PUT /v2/{name}/manifests/{tag}
PushManifestPutRun(fs, name, tag, doc) ==
    IF DecodeFails(doc)
    THEN [fs |-> fs, resp |-> Response("PUT manifest", name, tag, <<>>, "MANIFEST_INVALID", 0)]
    ELSE LET m == Decode(doc)
             made == CreateFile(MkdirAll(fs, name, tag), name, tag, "manifest.json")
         IN  [fs |-> WriteFile(made, name, tag, "manifest.json", DocFile(Encode(m))),
              resp |-> [Response("PUT manifest", name, tag, <<>>, "none", 201) EXCEPT
                           !.dcd = m.Config.Digest]]

\* the routes DELETE /v2/:name/blobs/:digest and
\* DELETE /v2/:name/manifests/:reference are registered with a nil handler:
\* no code of the program runs for them.  What the client is answered is
\* the router's choice: the call of the nil handler panics and net/http
\* closes the connection (no status, 0 here), or the request finds no route.
NilHandlerStatuses == {0, 404}
NilHandlerRun(op, name, ref, dq, status) ==
    [Response(op, name, ref, dq, "nil handler", 0) EXCEPT !.status = status]

(***************************************************************************)
(* State.                                                                  *)
(***************************************************************************)
VARIABLES
    fs,        \* the directories base/{name}/{key} and their files
    repos,     \* the repository directories base/{name} that exist
    nuuid,     \* how many upload ids uuid.New() has produced
    issued,    \* history: the <<name, upload id>> pairs POST answered with
    sess,      \* history: what the requests did to each upload reference
    committed, \* history: the <<name, digest>> pairs a commit PUT answered 201 for
    resp,      \* the last request (op, name, ref, dq) and the response to it
    nreq,      \* how many requests were processed
    task,      \* the requests in flight of the clients that work in parallel
    puts,      \* history: the bodies of the manifest PUTs to each <<name, tag>>
    renamed    \* history: the client whose commit renamed last into <<name, digest>>

vars == <<fs, repos, nuuid, issued, sess, committed, resp, nreq, task, puts, renamed>>

\* the upload-session state machine, as the requests drive it:
\* "fresh" (no PATCH yet), "populated" (one PATCH), "multi" (a further PATCH,
\* or a PATCH after a commit), "committed" (a commit PUT answered 201);
\* body is the body of the last PATCH, was the state before the commit
FreshSession == [st |-> "fresh", body |-> <<>>, was |-> "fresh"]
AfterPatch(s, body) ==
    [st |-> IF s.st = "fresh" THEN "populated" ELSE "multi", body |-> body,
     was |-> s.st]
AfterCommit(s) == [st |-> "committed", body |-> s.body, was |-> s.st]

EmptyStore == [d \in Names \X Keys |-> NoDir]

\* no manifest PUT was processed, and no commit has renamed
NoPuts == [d \in Names \X TagInputs |-> <<>>]
NoRename == [d \in Names \X ValidDigests |-> 0]

\* the clients that push in parallel, and a client with no request in flight:
\* pc is the step its handler takes next, n and file are the handler's
\* locals, status lists the answers the client has received
Clients == {1, 2}
IdleTask ==
    [pc |-> "idle", name |-> "", dq |-> <<>>, body |-> <<>>, uuid |-> <<>>,
     n |-> 0, file |-> "", status |-> <<>>, overlapped |-> FALSE]

\* what an earlier run of the server may have left under BasePath: nothing,
\* or a blob pushed as POST, PATCH(JsBody), PUT(?digest=sha256:aa)
StoreWithBlob ==
    [EmptyStore EXCEPT ![<<"r1", <<"sha256", ":", "aa">> >>] =
        [exists |-> TRUE,
         files |-> [f \in FileNames |->
                       IF f = "layer.json" THEN BytesFile(JsBody) ELSE NoFile]]]

\* or an open session that POST, PATCH(GzBody), PATCH(JsBody) have left
StoreWithSession ==
    [EmptyStore EXCEPT ![<<"r1", UuidOf(1)>>] =
        [exists |-> TRUE,
         files |-> [f \in FileNames |->
                       CASE f = "layer.tar.gz" -> BytesFile(GzBody)
                         [] f = "layer.json" -> BytesFile(JsBody)
                         [] OTHER -> NoFile]]]
NoSessions == [d \in Names \X Keys |-> FreshSession]

Init ==
    /\ \/ /\ fs = EmptyStore /\ repos = {} /\ committed = {}
          /\ nuuid = 0 /\ issued = {} /\ sess = NoSessions
       \/ /\ fs = StoreWithBlob /\ repos = {"r1"}
          /\ committed = {<<"r1", <<"sha256", ":", "aa">> >>}
          /\ nuuid = 0 /\ issued = {} /\ sess = NoSessions
       \/ /\ fs = StoreWithSession /\ repos = {"r1"} /\ committed = {}
          /\ nuuid = 1 /\ issued = {<<"r1", UuidOf(1)>>}
          /\ sess = [NoSessions EXCEPT ![<<"r1", UuidOf(1)>>] =
                        AfterPatch(AfterPatch(FreshSession, GzBody), JsBody)]
    /\ resp = NoResponse
    /\ nreq = 0
    /\ task = [c \in Clients |-> IdleTask]
    /\ puts = NoPuts
    /\ renamed = NoRename

\* the references a client can put into an upload URL: the grammar admits
\* tags and digests; upload ids are the ones a POST returned, or one made up
RefInputs ==
    TagInputs \cup RefDigests \cup {UnknownUuid} \cup {d[2] : d \in issued}

(***************************************************************************)
(* The requests, one at a time.                                            *)
(***************************************************************************)
PushBlob(name) ==
    /\ nreq < MaxRequests /\ nuuid < MaxUploads
    /\ nuuid' = nuuid + 1
    /\ repos' = repos \cup {name}
    /\ issued' = issued \cup {<<name, UuidOf(nuuid + 1)>>}
    /\ resp' = PushBlobRun(name, UuidOf(nuuid + 1))
    /\ nreq' = nreq + 1
    /\ UNCHANGED <<fs, sess, committed, task, puts, renamed>>

PushBlobPatch(name, ref, body, n) ==
    /\ nreq < MaxRequests
    /\ fs' = PushBlobPatchRun(fs, name, ref, body, n).fs
    /\ resp' = PushBlobPatchRun(fs, name, ref, body, n).resp
    /\ sess' = [sess EXCEPT ![<<name, ref>>] = AfterPatch(@, body)]
    /\ repos' = repos \cup {name}
    /\ nreq' = nreq + 1
    /\ UNCHANGED <<nuuid, issued, committed, task, puts, renamed>>

PushBlobPut(name, ref, dq) ==
    /\ nreq < MaxRequests
    /\ LET run == PushBlobPutRun(fs, name, ref, dq)
       IN  /\ fs' = run.fs
           /\ resp' = run.resp
           /\ sess' = IF run.resp.err = "none"
                      THEN [sess EXCEPT ![<<name, ref>>] = AfterCommit(@)]
                      ELSE sess
           /\ committed' = IF run.resp.err = "none"
                           THEN committed \cup {<<name, dq>>}
                           ELSE committed
           /\ repos' = IF run.resp.err = "DIGEST_INVALID" THEN repos
                       ELSE repos \cup {name}
    /\ nreq' = nreq + 1
    /\ UNCHANGED <<nuuid, issued, task, puts, renamed>>

PushManifestPut(name, tag, doc) ==
    /\ nreq < MaxRequests
    /\ LET run == PushManifestPutRun(fs, name, tag, doc)
       IN  /\ fs' = run.fs
           /\ resp' = run.resp
           /\ repos' = IF run.resp.err = "none" THEN repos \cup {name} ELSE repos
    /\ puts' = [puts EXCEPT ![<<name, tag>>] = Append(@, doc)]
    /\ nreq' = nreq + 1
    /\ UNCHANGED <<nuuid, issued, sess, committed, task, renamed>>

PullingBlobs(name, dq) ==
    /\ nreq < MaxRequests
    /\ resp' = PullingBlobsRun(fs, name, dq)
    /\ nreq' = nreq + 1
    /\ UNCHANGED <<fs, repos, nuuid, issued, sess, committed, task, puts, renamed>>

PushBlobHead(name, dq) ==
    /\ nreq < MaxRequests
    /\ resp' = PushBlobHeadRun(fs, name, dq)
    /\ nreq' = nreq + 1
    /\ UNCHANGED <<fs, repos, nuuid, issued, sess, committed, task, puts, renamed>>

PullingManifests(name, tag) ==
    /\ nreq < MaxRequests
    /\ resp' = PullingManifestsRun(fs, name, tag)
    /\ nreq' = nreq + 1
    /\ UNCHANGED <<fs, repos, nuuid, issued, sess, committed, task, puts, renamed>>

DeleteBlob(name, dq, status) ==
    /\ nreq < MaxRequests
    /\ resp' = NilHandlerRun("DELETE blob", name, <<>>, dq, status)
    /\ nreq' = nreq + 1
    /\ UNCHANGED <<fs, repos, nuuid, issued, sess, committed, task, puts, renamed>>

DeleteManifest(name, reference, status) ==
    /\ nreq < MaxRequests
    /\ resp' = NilHandlerRun("DELETE manifest", name, reference, <<>>, status)
    /\ nreq' = nreq + 1
    /\ UNCHANGED <<fs, repos, nuuid, issued, sess, committed, task, puts, renamed>>

Post == \E name \in SeqNames : PushBlob(name)
Patch ==
    \E name \in SeqNames, ref \in RefInputs, body \in Bodies :
        \E n \in ReadSizes(body) : PushBlobPatch(name, ref, body, n)
Commit == \E name \in SeqNames, ref \in RefInputs, dq \in DigestInputs :
    PushBlobPut(name, ref, dq)
PutManifest == \E name \in SeqNames, tag \in TagInputs, doc \in ManifestInputs :
    PushManifestPut(name, tag, doc)
GetBlob == \E name \in SeqNames, dq \in DigestInputs : PullingBlobs(name, dq)
HeadBlob == \E name \in SeqNames, dq \in DigestInputs : PushBlobHead(name, dq)
GetManifest == \E name \in SeqNames, tag \in RefInputs : PullingManifests(name, tag)
DelBlob ==
    \E name \in SeqNames, dq \in RefDigests, status \in NilHandlerStatuses :
        DeleteBlob(name, dq, status)
DelManifest ==
    \E name \in SeqNames, tag \in TagInputs, status \in NilHandlerStatuses :
        DeleteManifest(name, tag, status)

Next ==
    \/ Post
    \/ Patch
    \/ Commit
    \/ PutManifest
    \/ GetBlob
    \/ HeadBlob
    \/ GetManifest
    \/ DelBlob
    \/ DelManifest

Spec == Init /\ [][Next]_vars

(***************************************************************************)
(* Two clients that each push one blob, POST -> PATCH -> PUT, to an empty  *)
(* registry.  Every request is served by its own goroutine, so the         *)
(* handlers interleave between any two of their file-system calls.         *)
(***************************************************************************)
\* the plan of a client: where it pushes, and what
Plan(name, dq, body) ==
    [IdleTask EXCEPT !.pc = "post", !.name = name, !.dq = dq, !.body = body]

ParInit ==
    /\ fs = EmptyStore /\ repos = {} /\ committed = {}
    /\ nuuid = 0
    /\ issued = {}
    /\ sess = [d \in Names \X Keys |-> FreshSession]
    /\ resp = NoResponse
    /\ nreq = 0
    /\ puts = NoPuts
    /\ renamed = NoRename
    /\ \E n1 \in Names, n2 \in Names, d1 \in ValidDigests, d2 \in ValidDigests,
          b1 \in Bodies, b2 \in Bodies :
          /\ <<n1, d1>> # <<n2, d2>>
          /\ task = [c \in Clients |->
                        IF c = 1 THEN Plan(n1, d1, b1) ELSE Plan(n2, d2, b2)]

\* a handler of the client has started and has not answered yet
MidHandler(c) ==
    task[c].pc \in {"patch_read", "patch_create", "patch_copy",
                    "put_pickup", "put_rename", "put_remove"}

\* client c takes a step to pc, having received the statuses got
Advance(c, pc, got, n, file, uuid) ==
    task' = [task EXCEPT ![c] =
        [@ EXCEPT !.pc = pc, !.status = @ \o got, !.n = n, !.file = file,
                  !.uuid = uuid,
                  !.overlapped = @ \/ \E o \in Clients \ {c} : MidHandler(o)]]
Step(c, pc, got) ==
    Advance(c, pc, got, task[c].n, task[c].file, task[c].uuid)

\* PushBlob, whole: uuid.New(), os.MkdirAll of the repository, 202
ParPushBlob(c) ==
    /\ task[c].pc = "post" /\ nuuid < MaxUploads
    /\ nuuid' = nuuid + 1
    /\ repos' = repos \cup {task[c].name}
    /\ issued' = issued \cup {<<task[c].name, UuidOf(nuuid + 1)>>}
    /\ Advance(c, "patch_mkdir", <<202>>, task[c].n, task[c].file, UuidOf(nuuid + 1))
    /\ UNCHANGED <<fs, sess, committed, resp, nreq, puts, renamed>>

\* PushBlobPatch: os.MkdirAll(path)
ParPatchMkdir(c) ==
    /\ task[c].pc = "patch_mkdir"
    /\ fs' = MkdirAll(fs, task[c].name, UploadDir(task[c].name, task[c].uuid))
    /\ repos' = repos \cup {task[c].name}
    /\ Step(c, "patch_read", <<>>)
    /\ UNCHANGED <<nuuid, issued, sess, committed, resp, nreq, puts, renamed>>

\* CreateLayer: r.Read(buffer) and detectExt(buffer)
ParPatchRead(c) ==
    /\ task[c].pc = "patch_read"
    /\ \E n \in ReadSizes(task[c].body) :
          Advance(c, "patch_create", <<>>, n,
                  LayerFile(detectExt(task[c].body, n)), task[c].uuid)
    /\ UNCHANGED <<fs, repos, nuuid, issued, sess, committed, resp, nreq, puts, renamed>>

\* CreateLayer: os.Create(filePath); its error is returned as it is
ParPatchCreate(c) ==
    /\ task[c].pc = "patch_create"
    /\ LET dir == UploadDir(task[c].name, task[c].uuid)
       IN  IF StatDir(fs, task[c].name, dir)
           THEN /\ fs' = CreateFile(fs, task[c].name, dir, task[c].file)
                /\ Step(c, "patch_copy", <<>>)
           ELSE /\ fs' = fs
                /\ Step(c, "failed", <<500>>)
    /\ UNCHANGED <<repos, nuuid, issued, sess, committed, resp, nreq, puts, renamed>>

\* CreateLayer: io.Copy into the file, then 202
ParPatchCopy(c) ==
    /\ task[c].pc = "patch_copy"
    /\ LET dir == UploadDir(task[c].name, task[c].uuid)
       IN  /\ fs' = WriteFile(fs, task[c].name, dir, task[c].file,
                              BytesFile(task[c].body))
           /\ sess' = [sess EXCEPT ![<<task[c].name, task[c].uuid>>] =
                          AfterPatch(@, task[c].body)]
    /\ Step(c, "put_mkdir", <<202>>)
    /\ UNCHANGED <<repos, nuuid, issued, committed, resp, nreq, puts, renamed>>

\* PushBlobPut: digest.Parse and os.MkdirAll(newDir)
ParPutMkdir(c) ==
    /\ task[c].pc = "put_mkdir"
    /\ IF ParseDigest(task[c].dq)
       THEN /\ fs' = MkdirAll(fs, task[c].name, task[c].dq)
            /\ Step(c, "put_pickup", <<>>)
       ELSE /\ fs' = fs
            /\ Step(c, "failed", <<400>>)
    /\ UNCHANGED <<repos, nuuid, issued, sess, committed, resp, nreq, puts, renamed>>

\* PushBlobPut: registry.PickupFileinfo(oldDir)
ParPutPickup(c) ==
    /\ task[c].pc = "put_pickup"
    /\ LET fi == PickupFileinfo(fs, task[c].name,
                                UploadDir(task[c].name, task[c].uuid))
       IN  IF fi.err = "none"
           THEN Advance(c, "put_rename", <<>>, task[c].n, fi.file, task[c].uuid)
           ELSE Step(c, "failed", <<500>>)
    /\ UNCHANGED <<fs, repos, nuuid, issued, sess, committed, resp, nreq, puts, renamed>>

\* PushBlobPut: os.Rename(oldpath, newpath)
ParPutRename(c) ==
    /\ task[c].pc = "put_rename"
    /\ LET dir == UploadDir(task[c].name, task[c].uuid)
       IN  IF RenameOk(fs, task[c].name, dir, task[c].dq, task[c].file)
           THEN /\ fs' = Rename(fs, task[c].name, dir, task[c].dq, task[c].file)
                /\ renamed' = [renamed EXCEPT ![<<task[c].name, task[c].dq>>] = c]
                /\ Step(c, "put_remove", <<>>)
           ELSE /\ fs' = fs
                /\ renamed' = renamed
                /\ Step(c, "failed", <<500>>)
    /\ UNCHANGED <<repos, nuuid, issued, sess, committed, resp, nreq, puts>>

\* PushBlobPut: os.Remove(oldDir), then 201
ParPutRemove(c) ==
    /\ task[c].pc = "put_remove"
    /\ fs' = Remove(fs, task[c].name, UploadDir(task[c].name, task[c].uuid))
    /\ sess' = [sess EXCEPT ![<<task[c].name, task[c].uuid>>] = AfterCommit(@)]
    /\ committed' = committed \cup {<<task[c].name, task[c].dq>>}
    /\ Step(c, "done", <<201>>)
    /\ UNCHANGED <<repos, nuuid, issued, resp, nreq, puts, renamed>>

ParNext ==
    \E c \in Clients :
        \/ ParPushBlob(c)
        \/ ParPatchMkdir(c)
        \/ ParPatchRead(c)
        \/ ParPatchCreate(c)
        \/ ParPatchCopy(c)
        \/ ParPutMkdir(c)
        \/ ParPutPickup(c)
        \/ ParPutRename(c)
        \/ ParPutRemove(c)

ParSpec == ParInit /\ [][ParNext]_vars

\* the same two clients, both pushing to one (name, digest)
RaceInit ==
    /\ fs = EmptyStore /\ repos = {} /\ committed = {}
    /\ nuuid = 0
    /\ issued = {}
    /\ sess = NoSessions
    /\ resp = NoResponse
    /\ nreq = 0
    /\ puts = NoPuts
    /\ renamed = NoRename
    /\ \E name \in Names, dq \in ValidDigests, b1 \in Bodies, b2 \in Bodies :
          task = [c \in Clients |->
                     IF c = 1 THEN Plan(name, dq, b1) ELSE Plan(name, dq, b2)]

RaceSpec == RaceInit /\ [][ParNext]_vars

(***************************************************************************)
(* Two clients that send manifest PUTs and manifest GETs for one tag, each *)
(* request served by its own goroutine.  PushManifestPut is taken apart at *)
(* its file-system calls (os.MkdirAll, os.Create, the write of Encode) and *)
(* PullingManifests at its own (os.Stat; os.Open with io.Copy).            *)
(***************************************************************************)
\* a client of the manifest endpoints with no request in flight; m is the
\* Manifest the PUT handler has decoded
ManifestIdle == [pc |-> "idle", name |-> "", tag |-> <<>>, m |-> ZeroManifest]

ManifestInit ==
    /\ fs = EmptyStore /\ repos = {} /\ committed = {}
    /\ nuuid = 0
    /\ issued = {}
    /\ sess = NoSessions
    /\ resp = NoResponse
    /\ nreq = 0
    /\ puts = NoPuts
    /\ renamed = NoRename
    /\ task = [c \in Clients |-> ManifestIdle]

\* PushManifestPut: Decode(&m); a body that fails is answered at once
ManifestPutDecode(c, name, tag, doc) ==
    /\ task[c].pc = "idle" /\ nreq < MaxRequests
    /\ nreq' = nreq + 1
    /\ puts' = [puts EXCEPT ![<<name, tag>>] = Append(@, doc)]
    /\ IF DecodeFails(doc)
       THEN /\ resp' = PushManifestPutRun(fs, name, tag, doc).resp
            /\ task' = task
       ELSE /\ resp' = resp
            /\ task' = [task EXCEPT ![c] =
                           [pc |-> "put_mkdir", name |-> name, tag |-> tag,
                            m |-> Decode(doc)]]
    /\ UNCHANGED <<fs, repos, nuuid, issued, sess, committed, renamed>>

\* PushManifestPut: os.MkdirAll(path)
ManifestPutMkdir(c) ==
    /\ task[c].pc = "put_mkdir"
    /\ fs' = MkdirAll(fs, task[c].name, task[c].tag)
    /\ repos' = repos \cup {task[c].name}
    /\ task' = [task EXCEPT ![c].pc = "put_create"]
    /\ UNCHANGED <<nuuid, issued, sess, committed, resp, nreq, puts, renamed>>

\* PushManifestPut: os.Create(path) makes the file, or empties the one that
\* is there
ManifestPutCreate(c) ==
    /\ task[c].pc = "put_create"
    /\ IF StatDir(fs, task[c].name, task[c].tag)
       THEN /\ fs' = CreateFile(fs, task[c].name, task[c].tag, "manifest.json")
            /\ resp' = resp
            /\ task' = [task EXCEPT ![c].pc = "put_encode"]
       ELSE /\ fs' = fs
            /\ resp' = Response("PUT manifest", task[c].name, task[c].tag, <<>>,
                                "TAG_INVALID", 0)
            /\ task' = [task EXCEPT ![c] = ManifestIdle]
    /\ UNCHANGED <<repos, nuuid, issued, sess, committed, nreq, puts, renamed>>

\* PushManifestPut: Encode(&m) writes the document, then 201
ManifestPutEncode(c) ==
    /\ task[c].pc = "put_encode"
    /\ fs' = WriteFile(fs, task[c].name, task[c].tag, "manifest.json",
                       DocFile(Encode(task[c].m)))
    /\ resp' = [Response("PUT manifest", task[c].name, task[c].tag, <<>>, "none", 201)
                   EXCEPT !.dcd = task[c].m.Config.Digest]
    /\ task' = [task EXCEPT ![c] = ManifestIdle]
    /\ UNCHANGED <<repos, nuuid, issued, sess, committed, nreq, puts, renamed>>

\* PullingManifests: os.Stat(manifest)
ManifestGetStat(c, name, tag) ==
    /\ task[c].pc = "idle" /\ nreq < MaxRequests
    /\ nreq' = nreq + 1
    /\ IF StatFile(fs, name, tag, "manifest.json")
       THEN /\ resp' = resp
            /\ task' = [task EXCEPT ![c] =
                           [ManifestIdle EXCEPT !.pc = "get_copy", !.name = name,
                                                !.tag = tag]]
       ELSE /\ resp' = PullingManifestsRun(fs, name, tag)
            /\ task' = task
    /\ UNCHANGED <<fs, repos, nuuid, issued, sess, committed, puts, renamed>>

\* PullingManifests: os.Open(manifest) and io.Copy(w, f) send what the file
\* holds now
ManifestGetCopy(c) ==
    /\ task[c].pc = "get_copy"
    /\ resp' = PullingManifestsRun(fs, task[c].name, task[c].tag)
    /\ task' = [task EXCEPT ![c] = ManifestIdle]
    /\ UNCHANGED <<fs, repos, nuuid, issued, sess, committed, nreq, puts, renamed>>

ManifestPut(c) ==
    \E name \in SeqNames, tag \in TagInputs, doc \in ManifestInputs :
        ManifestPutDecode(c, name, tag, doc)
ManifestGet(c) ==
    \E name \in SeqNames, tag \in TagInputs : ManifestGetStat(c, name, tag)

ManifestNext ==
    \E c \in Clients :
        \/ ManifestPut(c)
        \/ ManifestPutMkdir(c)
        \/ ManifestPutCreate(c)
        \/ ManifestPutEncode(c)
        \/ ManifestGet(c)
        \/ ManifestGetCopy(c)

ManifestSpec == ManifestInit /\ [][ManifestNext]_vars

(***************************************************************************)
(* Properties of the sequential specification.                             *)
(***************************************************************************)
\* the state right after a commit PUT answered 201 for a session that a
\* POST opened and exactly one PATCH populated
AfterPush ==
    /\ resp.op = "PUT" /\ resp.status = 201
    /\ <<resp.name, resp.ref>> \in issued
    /\ sess[<<resp.name, resp.ref>>].st = "committed"
    /\ sess[<<resp.name, resp.ref>>].was = "populated"
PushedBody == sess[<<resp.name, resp.ref>>].body

\* C1: after a successful push POST -> PATCH(B) -> PUT(?digest=d), a GET of
\* {name}/blobs/{d} returns exactly B and a HEAD reports Content-Length |B|.
C1_PushThenPull ==
    AfterPush =>
        /\ PullingBlobsRun(fs, resp.name, resp.dq).err = "none"
        /\ PullingBlobsRun(fs, resp.name, resp.dq).body = BytesFile(PushedBody)
        /\ PushBlobHeadRun(fs, resp.name, resp.dq).clen = Len(PushedBody)

\* config.digest as it stands in the JSON document M
ConfigDigestOf(doc) ==
    IF doc.config.t = "object" /\ doc.config.digest.t = "str"
    THEN doc.config.digest.s ELSE <<>>

\* C2: a manifest PUT with a well-formed body M under (name, tag) is answered
\* 201 with Docker-Content-Digest = M.config.digest, and a GET of the tag then
\* returns canonical JSON (re-encoding what it parses to gives it back) whose
\* parsed form equals the parsed form of M.
C2_ManifestRoundTrip ==
    [][\A name \in SeqNames, tag \in TagInputs, doc \in ManifestInputs :
          (PushManifestPut(name, tag, doc) /\ ~DecodeFails(doc)) =>
              /\ resp'.status = 201
              /\ resp'.dcd = ConfigDigestOf(doc)
              /\ LET got == PullingManifestsRun(fs', name, tag)
                 IN  /\ got.status = 200
                     /\ got.body.kind = "doc"
                     /\ ~DecodeFails(got.body.doc)
                     /\ Decode(got.body.doc) = Decode(doc)
                     /\ Encode(Decode(got.body.doc)) = got.body.doc]_vars

\* a GET returned the manifest stored by a PUT whose body had a member the
\* struct does not know and lacked others
C2_Witness ==
    /\ resp.op = "GET manifest" /\ resp.status = 200
    /\ resp.body.kind = "doc"
    /\ Decode(resp.body.doc) = Decode(ManifestSparse)
    /\ resp.body.doc # ManifestSparse

\* C3: a PATCH whose upload id no POST issued for that repository is
\* answered 404 BLOB_UPLOAD_UNKNOWN.
C3_PatchUnknownUpload ==
    (resp.op = "PATCH" /\ <<resp.name, resp.ref>> \notin issued) =>
        (resp.err = "BLOB_UPLOAD_UNKNOWN" /\ resp.status = 404)

\* the state of the session a commit PUT addressed, before the PUT
SessionBeforePut ==
    IF resp.err = "none"
    THEN sess[<<resp.name, resp.ref>>].was
    ELSE sess[<<resp.name, resp.ref>>].st

\* C4: a commit PUT with a valid digest succeeds only for a session that
\* exists with its scratch file; for a session never opened, never populated
\* or already committed it fails with BLOB_UPLOAD_UNKNOWN.
C4_CommitNeedsSession ==
    (resp.op = "PUT" /\ ParseDigest(resp.dq)) =>
        /\ resp.err = "none" =>
              /\ <<resp.name, resp.ref>> \in issued
              /\ SessionBeforePut \in {"populated", "multi"}
        /\ ( \/ <<resp.name, resp.ref>> \notin issued
             \/ SessionBeforePut \in {"fresh", "committed"} ) =>
              resp.err = "BLOB_UPLOAD_UNKNOWN"

\* C5: a GET of a (name, digest) under which no blob was committed is
\* answered 404 BLOB_UNKNOWN, also after commit PUTs that failed.  (Stated
\* for the digests that no PATCH used as its upload reference.)
C5_UnknownBlob ==
    (/\ resp.op = "GET" /\ ParseDigest(resp.dq)
     /\ <<resp.name, resp.dq>> \notin committed
     /\ sess[<<resp.name, resp.dq>>].st = "fresh") =>
        (resp.err = "BLOB_UNKNOWN" /\ resp.status = 404)

MediaTypeOf(body) ==
    IF IsArchive(body, Len(body)) THEN TarGzipType ELSE ManifestType

\* C7: the Content-Type a committed blob is served with at HEAD and at GET
\* is the media type of the body that was pushed: the tar+gzip type for an
\* archive, the manifest JSON type for any other body.
C7_MediaTypeRoundTrip ==
    AfterPush =>
        /\ PushBlobHeadRun(fs, resp.name, resp.dq).ctype = MediaTypeOf(PushedBody)
        /\ PullingBlobsRun(fs, resp.name, resp.dq).ctype = MediaTypeOf(PushedBody)

\* C8: a HEAD of a committed blob is answered 200 with Content-Length the
\* size of the stored file, Docker-Content-Digest the requested digest and
\* the Content-Type of the stored file's extension.
C8_HeadCommitted ==
    (/\ resp.op = "HEAD" /\ ParseDigest(resp.dq)
     /\ <<resp.name, resp.dq>> \in committed
     /\ PickupFileinfo(fs, resp.name, resp.dq).err = "none") =>
        LET fi == PickupFileinfo(fs, resp.name, resp.dq)
        IN  /\ resp.status = 200
            /\ resp.clen = FileSize(fs[<<resp.name, resp.dq>>].files[fi.file])
            /\ resp.dcd = resp.dq
            /\ resp.ctype = PredictDockerContentType(fi.file)

\* C10: a (name, digest) that GET or HEAD can read was the target of an
\* earlier commit PUT answered 201.
C10_BlobOnlyByCommit ==
    \A name \in Names, dq \in ValidDigests :
        ( \/ PullingBlobsRun(fs, name, dq).err = "none"
          \/ PushBlobHeadRun(fs, name, dq).err = "none" ) =>
            <<name, dq>> \in committed

\* the request of the step is no PATCH or commit PUT whose upload reference
\* no POST has issued
IssuedUpload ==
    resp'.op \in {"PATCH", "PUT"} => <<resp'.name, resp'.ref>> \in issued

\* C11: a committed blob is never mutated: when a GET of (name, digest)
\* returns bytes B, a GET after any further request returns B as well.
\* (Stated for the requests whose upload reference, if any, a POST issued.)
C11_BlobNeverMutated ==
    [][IssuedUpload =>
          \A name \in Names, dq \in ValidDigests :
              PullingBlobsRun(fs, name, dq).err = "none" =>
                  /\ PullingBlobsRun(fs', name, dq).err = "none"
                  /\ PullingBlobsRun(fs', name, dq).body =
                         PullingBlobsRun(fs, name, dq).body]_vars

\* the manifest PUTs to (name, tag) so far, and the last one
PutsTo(name, tag) == puts[<<name, tag>>]
LastPut(name, tag) == PutsTo(name, tag)[Len(PutsTo(name, tag))]

\* C12: after any sequence of manifest PUTs to one tag, and nothing else,
\* the last PUT was answered 201 if its body parsed, and a GET of the tag then
\* returns the manifest of that PUT, also when the PUT before it had the
\* same body.
C12_LastManifestWins ==
    \A name \in Names, tag \in TagInputs :
        (/\ PutsTo(name, tag) # <<>>
         /\ nreq = Len(PutsTo(name, tag))
         /\ ~DecodeFails(LastPut(name, tag))) =>
            LET got == PullingManifestsRun(fs, name, tag)
            IN  /\ resp.op = "PUT manifest" /\ resp.status = 201
                /\ got.status = 200
                /\ got.body = DocFile(Encode(Decode(LastPut(name, tag))))

\* three manifest PUTs to one tag: a first body, then another body twice
C12_Witness ==
    /\ nreq = 3
    /\ PutsTo("r1", <<"v1">>) = <<ManifestSparse, ManifestFull, ManifestFull>>
    /\ resp.op = "PUT manifest" /\ resp.status = 201
    /\ PullingManifestsRun(fs, "r1", <<"v1">>).body.doc = Encode(Decode(ManifestFull))

\* the body is one JSON value, and nothing else, that fits the Manifest struct
WellFormed(doc) == doc.syntax /\ ~doc.trailing /\ ~DecodeFails(doc)

\* C13: a manifest PUT whose body is not well-formed JSON for the Manifest
\* entity is answered 400 MANIFEST_INVALID and leaves the store as it is: no
\* tag directory is created and a manifest stored under the tag stays.
C13_MalformedManifest ==
    [][\A name \in SeqNames, tag \in TagInputs, doc \in ManifestInputs :
          (PushManifestPut(name, tag, doc) /\ ~WellFormed(doc)) =>
              /\ resp'.err = "MANIFEST_INVALID" /\ resp'.status = 400
              /\ fs' = fs
              /\ PullingManifestsRun(fs', name, tag) =
                     PullingManifestsRun(fs, name, tag)]_vars

\* C14: a DELETE of a blob or of a manifest that exists is answered 202 and
\* removes it, so that a GET of it afterwards is answered BLOB_UNKNOWN or
\* MANIFEST_UNKNOWN.
C14_DeleteRemoves ==
    [][/\ (/\ resp'.op = "DELETE blob"
           /\ PullingBlobsRun(fs, resp'.name, resp'.dq).err = "none") =>
              /\ resp'.status = 202
              /\ PullingBlobsRun(fs', resp'.name, resp'.dq).err = "BLOB_UNKNOWN"
       /\ (/\ resp'.op = "DELETE manifest"
           /\ PullingManifestsRun(fs, resp'.name, resp'.ref).err = "none") =>
              /\ resp'.status = 202
              /\ PullingManifestsRun(fs', resp'.name, resp'.ref).err =
                     "MANIFEST_UNKNOWN"]_vars

\* every PATCH and every commit PUT answered 201 so far carried an upload
\* reference that a POST had issued
OnlyIssuedUploads ==
    \A d \in Names \X Keys : sess[d].st # "fresh" => d \in issued

\* C15: every blob directory base/{name}/{digest} holds at most one file,
\* also after two sessions whose bodies were detected as different media
\* types were committed to the same digest.  (Stated for the states right
\* after a push POST -> PATCH -> PUT, all uploads so far having carried
\* issued references.)
C15_BlobDirSingleFile ==
    (AfterPush /\ OnlyIssuedUploads) =>
        \A name \in Names, dq \in ValidDigests :
            Len(ReadDir(fs, name, dq)) <= 1

\* C16: the directory of an upload session holds exactly one layer file
\* whenever it exists, also after a second PATCH to the session whose body is
\* detected as another media type than the first.  (Stated right after the
\* first and the second PATCH of a session.)
C16_SessionDirSingleFile ==
    (/\ resp.op = "PATCH"
     /\ <<resp.name, resp.ref>> \in issued
     /\ sess[<<resp.name, resp.ref>>].was \in {"fresh", "populated"}) =>
        /\ StatDir(fs, resp.name, resp.ref)
        /\ Len(ReadDir(fs, resp.name, resp.ref)) = 1

\* C17: when a commit PUT for (name, upload_id) is answered 201, the file of
\* the session is in the blob directory and the directory of the session no
\* longer exists.
C17_SessionDirRemoved ==
    (/\ resp.op = "PUT" /\ resp.status = 201
     /\ <<resp.name, resp.ref>> \in issued) =>
        /\ ReadDir(fs, resp.name, resp.dq) # <<>>
        /\ ~StatDir(fs, resp.name, resp.ref)

\* C19: no POST, PATCH or commit PUT of the blob uploads, whatever its upload
\* reference, changes the directory of a tag: the manifest.json stored under
\* (name, tag) stays as it is and no file is added next to it.
C19_UploadsKeepTags ==
    [][resp'.op \in {"POST", "PATCH", "PUT"} =>
          \A name \in Names, tag \in TagInputs :
              StatFile(fs, name, tag, "manifest.json") =>
                  fs'[<<name, tag>>] = fs[<<name, tag>>]]_vars

(***************************************************************************)
(* Properties of the parallel pushes.                                      *)
(***************************************************************************)
\* C9: two pushes to distinct (name, digest) pairs, their handlers
\* interleaved in any order, are answered 202, 202 and 201 each, and once a
\* push has ended its blob reads back as the bytes of that push, whatever
\* the other push does.
C9_ParallelPushes ==
    \A c \in Clients :
        /\ task[c].pc # "failed"
        /\ task[c].pc = "done" =>
              /\ task[c].status = <<202, 202, 201>>
              /\ PullingBlobsRun(fs, task[c].name, task[c].dq).err = "none"
              /\ PullingBlobsRun(fs, task[c].name, task[c].dq).body =
                     BytesFile(task[c].body)
              /\ PushBlobHeadRun(fs, task[c].name, task[c].dq).clen =
                     Len(task[c].body)

\* both pushes ended, in the same repository, with different bodies stored
\* under the same file name, and each took a step while a handler of the
\* other was running
C9_Witness ==
    /\ \A c \in Clients : task[c].pc = "done" /\ task[c].overlapped
    /\ task[1].name = task[2].name
    /\ task[1].body # task[2].body
    /\ PickupFileinfo(fs, task[1].name, task[1].dq).file =
           PickupFileinfo(fs, task[2].name, task[2].dq).file

\* C18: two commit PUTs from two populated sessions that name the same
\* (name, digest), interleaved in any order, are both answered 201, and
\* afterwards the blob directory holds a single file, with the content of
\* the PUT that renamed last.
C18_CommitRace ==
    /\ \A c \in Clients : task[c].pc # "failed"
    /\ (\A c \in Clients : task[c].pc = "done") =>
          LET name == task[1].name
              dq == task[1].dq
              last == renamed[<<name, dq>>]
          IN  /\ \A c \in Clients : task[c].status = <<202, 202, 201>>
              /\ Len(ReadDir(fs, name, dq)) = 1
              /\ last \in Clients
              /\ fs[<<name, dq>>].files[ReadDir(fs, name, dq)[1]] =
                     BytesFile(task[last].body)

(***************************************************************************)
(* Properties of the manifest requests in parallel.                        *)
(***************************************************************************)
\* the documents that manifest PUTs to (name, tag) store
StoredBy(name, tag) ==
    {DocFile(Encode(Decode(PutsTo(name, tag)[i]))) :
        i \in {j \in 1..Len(PutsTo(name, tag)) :
                  ~DecodeFails(PutsTo(name, tag)[j])}}

\* C20: a manifest GET that runs while a manifest PUT to the same
\* (name, tag) runs is answered MANIFEST_UNKNOWN or with a manifest in full,
\* the one stored before or the new one, never with an empty or cut body.
C20_ManifestGetWhole ==
    resp.op = "GET manifest" =>
        \/ resp.err = "MANIFEST_UNKNOWN"
        \/ /\ resp.status = 200
           /\ resp.body \in StoredBy(resp.name, resp.ref)

====
